---- MODULE Spec2Model ----
(***************************************************************************)
(* Model of three pieces of roganartu/vector:                               *)
(*   - schema::Output (lib/vector-core/src/schema/output.rs)               *)
(*   - EventArray / EventArrayIntoIter (lib/vector-core/src/event/array.rs)*)
(*   - parse_prometheus_text (lib/vrl/stdlib/src/parse_prometheus_text.rs) *)
(* Each piece has its own specification over the shared variables.         *)
(***************************************************************************)
EXTENDS Integers, Sequences, FiniteSets, TLC

VARIABLES outs, last, nOps,
          array, iter, srcArr, yielded, exhausted, built,
          pc, value, parsed, result

vars == <<outs, last, nOps,
          array, iter, srcArr, yielded, exhausted, built,
          pc, value, parsed, result>>

outVars == <<outs, last, nOps>>
arrVars == <<array, iter, srcArr, yielded, exhausted, built>>
decVars == <<pc, value, parsed, result>>

(* Option<T>: None is the empty sequence, Some(v) the one-element sequence *)
None == <<>>
Some(v) == <<v>>

(***************************************************************************)
(* Bounds                                                                  *)
(***************************************************************************)
MaxOps == 3
MaxLen == 3
MaxGroups == 2
MaxKeys == 2

(***************************************************************************)
(* value::Kind -- a structural type descriptor.  A Kind is the union of    *)
(* the shapes it admits: the "any" sentinel, a set of scalar kinds, an     *)
(* optional array shape (element Kind) and an optional object shape        *)
(* (known fields plus the open flag).                                      *)
(***************************************************************************)
NoFields == [f \in {} |-> 0]

AnyKind == [any |-> TRUE, scalars |-> {}, arr |-> None, obj |-> None]

ScalarKind(s) == [any |-> FALSE, scalars |-> {s}, arr |-> None, obj |-> None]

ArrayKind(e) == [any |-> FALSE, scalars |-> {}, arr |-> Some(e), obj |-> None]

ObjectKind(fields, open) ==
  [any |-> FALSE, scalars |-> {}, arr |-> None,
   obj |-> Some([fields |-> fields, open |-> open])]

(* Kind::object(kind::Collection::any()) *)
ObjectAny == ObjectKind(NoFields, TRUE)

RECURSIVE MergeKind(_, _)
MergeKind(a, b) ==
  IF a.any \/ b.any THEN AnyKind
  ELSE
    [any |-> FALSE,
     scalars |-> a.scalars \cup b.scalars,
     arr |-> IF a.arr = None THEN b.arr
             ELSE IF b.arr = None THEN a.arr
             ELSE Some(MergeKind(a.arr[1], b.arr[1])),
     obj |-> IF a.obj = None THEN b.obj
             ELSE IF b.obj = None THEN a.obj
             ELSE LET fa == a.obj[1].fields
                      fb == b.obj[1].fields
                  IN Some([fields |->
                             [f \in (DOMAIN fa) \cup (DOMAIN fb) |->
                                IF f \in DOMAIN fa /\ f \in DOMAIN fb
                                  THEN MergeKind(fa[f], fb[f])
                                  ELSE IF f \in DOMAIN fa THEN fa[f] ELSE fb[f]],
                           open |-> a.obj[1].open \/ b.obj[1].open])]

RECURSIVE NestAtPath(_, _)
NestAtPath(kind, path) ==
  IF path = <<>> THEN kind
  ELSE ObjectKind([f \in {Head(path)} |-> NestAtPath(kind, Tail(path))], FALSE)

(***************************************************************************)
(* schema::Output                                                          *)
(* The purpose map is kept as its set of (tag, path) entries, so that      *)
(* "one path per tag" is a property of the operations and not of the       *)
(* representation.                                                         *)
(***************************************************************************)
Purposes == {"timestamp", "message"}
(* the field declarations components make: a path and the kind declared there *)
FieldDecls ==
  {[path |-> <<"a">>, kind |-> ScalarKind("bytes")],
   [path |-> <<"a">>, kind |-> ScalarKind("timestamp")],
   [path |-> <<"a">>, kind |-> ObjectAny],
   [path |-> <<"a", "b">>, kind |-> ScalarKind("bytes")],
   [path |-> <<"c">>, kind |-> ArrayKind(ScalarKind("bytes"))],
   [path |-> <<"c">>, kind |-> ArrayKind(ScalarKind("integer"))],
   [path |-> <<"c">>, kind |-> AnyKind]}
OutIds == {1, 2}

Keys(m) == {e[1] : e \in m}

(* HashMap::insert *)
MapInsert(m, k, v) == {e \in m : e[1] # k} \cup {<<k, v>>}

(* HashMap::extend: insert every entry of the other map *)
MapExtend(m, o) == {e \in m : e[1] \notin Keys(o)} \cup o

(* HashMap::get *)
MapGet(m, k) == {e[2] : e \in {x \in m : x[1] = k}}

Empty == [kind |-> ObjectAny, purpose |-> {}]

(* define_field that adds the binding without replacing the old one *)
DefineFieldKeepsOld(self, path, kind, purpose) ==
  [kind |-> MergeKind(self.kind, NestAtPath(kind, path)),
   purpose |-> IF purpose # None THEN self.purpose \cup {<<purpose[1], path>>}
               ELSE self.purpose]

DefineFieldOutput(self, path, kind, purpose) ==
  [kind |-> MergeKind(self.kind, NestAtPath(kind, path)),
   purpose |-> IF purpose # None THEN MapInsert(self.purpose, purpose[1], path)
               ELSE self.purpose]

(* merge in which a purpose already bound on self wins *)
MergeKeepsSelfPurpose(self, other) ==
  [kind |-> MergeKind(self.kind, other.kind),
   purpose |-> self.purpose \cup {e \in other.purpose : e[1] \notin Keys(self.purpose)}]

(* merge that replaces the kind by the incoming one *)
MergeReplacesKind(self, other) ==
  [kind |-> other.kind,
   purpose |-> MapExtend(self.purpose, other.purpose)]

MergeOutput(self, other) ==
  [kind |-> MergeKind(self.kind, other.kind),
   purpose |-> MapExtend(self.purpose, other.purpose)]

NoOp == [op |-> "init", i |-> 1, path |-> <<>>, purpose |-> None,
         self |-> Empty, other |-> Empty]

DefineField(i, path, kind, purpose) ==
  /\ nOps < MaxOps
  /\ outs' = [outs EXCEPT ![i] = DefineFieldOutput(outs[i], path, kind, purpose)]
  /\ last' = [op |-> "define_field", i |-> i, path |-> path, purpose |-> purpose,
              self |-> outs[i], other |-> Empty]
  /\ nOps' = nOps + 1

Merge(i, j) ==
  /\ nOps < MaxOps
  /\ outs' = [outs EXCEPT ![i] = MergeOutput(outs[i], outs[j])]
  /\ last' = [op |-> "merge", i |-> i, path |-> <<>>, purpose |-> None,
              self |-> outs[i], other |-> outs[j]]
  /\ nOps' = nOps + 1

OutNext ==
  \/ \E i \in OutIds, d \in FieldDecls,
        purpose \in {None} \cup {Some(p) : p \in Purposes} :
       DefineField(i, d.path, d.kind, purpose) /\ UNCHANGED <<arrVars, decVars>>
  \/ \E i \in OutIds : \E j \in OutIds \ {i} :
       Merge(i, j) /\ UNCHANGED <<arrVars, decVars>>

(***************************************************************************)
(* event::EventArray                                                       *)
(***************************************************************************)
LogPayloads == {"l1", "l2"}
MetricPayloads == {"m1", "m2"}

(* enum Event { Log(LogEvent), Metric(Metric) } *)
LogEvent(p) == [kind |-> "Log", payload |-> p]
MetricEvent(p) == [kind |-> "Metric", payload |-> p]
Events == {LogEvent(p) : p \in LogPayloads} \cup {MetricEvent(p) : p \in MetricPayloads}

RECURSIVE SeqsUpTo(_, _)
SeqsUpTo(S, n) ==
  IF n = 0 THEN {<<>>}
  ELSE LET shorter == SeqsUpTo(S, n - 1)
       IN shorter \cup {Append(q, x) : q \in {r \in shorter : Len(r) = n - 1}, x \in S}

(* enum EventArray { Logs(LogArray), Metrics(MetricArray) } *)
EventArrays ==
  {[variant |-> "Logs", items |-> q] : q \in SeqsUpTo(LogPayloads, MaxLen)}
    \cup {[variant |-> "Metrics", items |-> q] : q \in SeqsUpTo(MetricPayloads, MaxLen)}

(* From<Event> with the two arms swapped *)
EventArrayFromSwapped(event) ==
  IF event.kind = "Log" THEN [variant |-> "Metrics", items |-> <<event.payload>>]
  ELSE [variant |-> "Logs", items |-> <<event.payload>>]

(* impl From<Event> for EventArray *)
EventArrayFrom(event) ==
  IF event.kind = "Log" THEN [variant |-> "Logs", items |-> <<event.payload>>]
  ELSE [variant |-> "Metrics", items |-> <<event.payload>>]

(* EventArray::into_events *)
IntoEvents(a) ==
  IF a.variant = "Logs" THEN [variant |-> "Logs", rest |-> a.items]
  ELSE [variant |-> "Metrics", rest |-> a.items]

(* next() that takes from the back of the batch *)
IterItemFromBack(it) ==
  IF it.rest = <<>> THEN None
  ELSE IF it.variant = "Logs" THEN Some(LogEvent(it.rest[Len(it.rest)]))
  ELSE Some(MetricEvent(it.rest[Len(it.rest)]))

(* EventArrayIntoIter::next: the returned Option<Event> *)
IterItem(it) ==
  IF it.rest = <<>> THEN None
  ELSE IF it.variant = "Logs" THEN Some(LogEvent(Head(it.rest)))
  ELSE Some(MetricEvent(Head(it.rest)))

(* EventArrayIntoIter::next: the iterator after the call *)
IterAdvance(it) ==
  IF it.rest = <<>> THEN it ELSE [it EXCEPT !.rest = Tail(it.rest)]

NotBuilt == [how |-> "none", event |-> LogEvent("l1")]

(* EventArray::from(event) *)
FromEvent(event) ==
  /\ array' = Some(EventArrayFrom(event))
  /\ built' = [how |-> "from", event |-> event]
  /\ UNCHANGED <<iter, srcArr, yielded, exhausted>>

(* a source or decoder hands over a batch it built itself *)
NewArray(a) ==
  /\ array' = Some(a)
  /\ built' = [how |-> "source", event |-> LogEvent("l1")]
  /\ UNCHANGED <<iter, srcArr, yielded, exhausted>>

(* array.into_events(): the array is moved into the iterator *)
CallIntoEvents ==
  /\ array # None
  /\ iter' = Some(IntoEvents(array[1]))
  /\ srcArr' = array
  /\ array' = None
  /\ yielded' = <<>>
  /\ exhausted' = FALSE
  /\ built' = NotBuilt

(* iter.next() *)
CallNext ==
  /\ iter # None
  /\ LET item == IterItem(iter[1])
     IN /\ yielded' = IF item = None THEN yielded ELSE Append(yielded, item[1])
        /\ exhausted' = (item = None)
  /\ iter' = Some(IterAdvance(iter[1]))
  /\ UNCHANGED <<array, srcArr, built>>

ArrNext ==
  \/ \E event \in Events : FromEvent(event) /\ UNCHANGED <<outVars, decVars>>
  \/ \E a \in EventArrays : NewArray(a) /\ UNCHANGED <<outVars, decVars>>
  \/ CallIntoEvents /\ UNCHANGED <<outVars, decVars>>
  \/ CallNext /\ UNCHANGED <<outVars, decVars>>

(***************************************************************************)
(* parse_prometheus_text                                                   *)
(***************************************************************************)
(* vrl Value: a kind tag and a payload *)
VBytes(s) == [k |-> "bytes", v |-> s]
VFloat(n) == [k |-> "float", v |-> n]
VInteger(n) == [k |-> "integer", v |-> n]
VObject(m) == [k |-> "object", v |-> m]
VArray(q) == [k |-> "array", v |-> q]
VNull == [k |-> "null", v |-> ""]

(* Result<T, E> *)
Ok(v) == [tag |-> "Ok", val |-> v]
Err(e) == [tag |-> "Err", val |-> e]
Pending == [tag |-> "Pending", val |-> <<>>]

(* What the grammar parser can hand back.  Floats are in hundredths. *)
GroupKinds == {"Counter", "Gauge", "Histogram", "Summary", "Untyped"}
Names == {"metric_without_timestamp_and_labels", "http_requests"}
NoLabels == [l \in {} |-> ""]
GroupKeys ==
  {[labels |-> NoLabels, timestamp |-> None],
   [labels |-> [l \in {"foo"} |-> "bar"], timestamp |-> Some(1642734900)]}
ParserErrors == {"expected value", "invalid metric name"}

SampleOf(kind) ==
  IF kind = "Summary"
    THEN [quantiles |-> <<[quantile |-> 50, value |-> 310], [quantile |-> 99, value |-> 470]>>,
          sum |-> 1247, count |-> 4]
  ELSE IF kind = "Histogram"
    THEN [buckets |-> <<[bucket |-> 100, count |-> 1], [bucket |-> 500, count |-> 4]>>,
          sum |-> 1247, count |-> 4]
  ELSE [value |-> 1247]

HasDistinctKeys(q) == \A a, b \in 1..Len(q) : q[a] = q[b] => a = b

(* a metric map, as the sequence of its (group_key, sample) pairs in iteration order *)
MetricMaps(kind) ==
  {[n \in 1..Len(q) |-> [key |-> q[n], sample |-> SampleOf(kind)]] :
     q \in {r \in SeqsUpTo(GroupKeys, MaxKeys) : HasDistinctKeys(r)}}

MetricGroups ==
  UNION {{[name |-> name, kind |-> kind, metrics |-> m] : name \in Names, m \in MetricMaps(kind)} :
           kind \in GroupKinds}

ArgBytes == VBytes("text")

(* GroupKind::type_to_str *)
TypeToStr(kind) ==
  CASE kind = "Counter" -> "counter"
    [] kind = "Gauge" -> "gauge"
    [] kind = "Histogram" -> "histogram"
    [] kind = "Summary" -> "summary"
    [] kind = "Untyped" -> "untyped"

(* BTreeMap::insert *)
EntryInsert(entry, field, val) == (field :> val) @@ entry

LabelsValue(labels) == VObject([l \in DOMAIN labels |-> VBytes(labels[l])])

(* a timestamp field that is always inserted, null when the key has none *)
WithTimestampOrNull(entry, group_key) ==
  IF group_key.timestamp # None
    THEN EntryInsert(entry, "timestamp", VInteger(group_key.timestamp[1]))
    ELSE EntryInsert(entry, "timestamp", VNull)

WithTimestamp(entry, group_key) ==
  IF group_key.timestamp # None
    THEN EntryInsert(entry, "timestamp", VInteger(group_key.timestamp[1]))
    ELSE entry

SimpleEntry(metric_type, name, group_key, sample) ==
  WithTimestamp(
    [f \in {"type", "name", "value", "labels"} |->
       CASE f = "type" -> VBytes(metric_type)
         [] f = "name" -> VBytes(name)
         [] f = "value" -> VFloat(sample.value)
         [] f = "labels" -> LabelsValue(group_key.labels)],
    group_key)

SummaryEntry(metric_type, name, group_key, sample) ==
  WithTimestamp(
    [f \in {"type", "name", "quantiles", "sum", "count", "labels"} |->
       CASE f = "type" -> VBytes(metric_type)
         [] f = "name" -> VBytes(name)
         [] f = "quantiles" ->
              VArray([n \in 1..Len(sample.quantiles) |->
                        VObject([g \in {"quantile", "value"} |->
                                   IF g = "quantile" THEN VFloat(sample.quantiles[n].quantile)
                                   ELSE VFloat(sample.quantiles[n].value)])])
         [] f = "sum" -> VFloat(sample.sum)
         [] f = "count" -> VInteger(sample.count)
         [] f = "labels" -> LabelsValue(group_key.labels)],
    group_key)

HistogramEntry(metric_type, name, group_key, sample) ==
  WithTimestamp(
    [f \in {"type", "name", "buckets", "sum", "count", "labels"} |->
       CASE f = "type" -> VBytes(metric_type)
         [] f = "name" -> VBytes(name)
         [] f = "buckets" ->
              VArray([n \in 1..Len(sample.buckets) |->
                        VObject([g \in {"bucket", "count"} |->
                                   IF g = "bucket" THEN VFloat(sample.buckets[n].bucket)
                                   ELSE VInteger(sample.buckets[n].count)])])
         [] f = "sum" -> VFloat(sample.sum)
         [] f = "count" -> VInteger(sample.count)
         [] f = "labels" -> LabelsValue(group_key.labels)],
    group_key)

(* the closure mapped over the parsed groups: one entry per (group_key, sample) *)
GroupEntries(metric_group) ==
  LET metric_type == TypeToStr(metric_group.kind)
      metric_map == metric_group.metrics
  IN [n \in 1..Len(metric_map) |->
        IF metric_group.kind \in {"Gauge", "Untyped", "Counter"}
          THEN SimpleEntry(metric_type, metric_group.name, metric_map[n].key, metric_map[n].sample)
        ELSE IF metric_group.kind = "Summary"
          THEN SummaryEntry(metric_type, metric_group.name, metric_map[n].key, metric_map[n].sample)
        ELSE HistogramEntry(metric_type, metric_group.name, metric_map[n].key, metric_map[n].sample)]

(* a flatten that emits the groups last to first *)
RECURSIVE FlattenReversed(_)
FlattenReversed(groups) ==
  IF groups = <<>> THEN <<>>
  ELSE FlattenReversed(Tail(groups)) \o GroupEntries(Head(groups))

(* .flatten().collect() *)
RECURSIVE Flatten(_)
Flatten(groups) ==
  IF groups = <<>> THEN <<>>
  ELSE GroupEntries(Head(groups)) \o Flatten(Tail(groups))

(* a resolve that swallows the parse error and returns what it has *)
ResolveSwallowsError(bytes, parse_text) ==
  IF bytes.k # "bytes" THEN Err("expected bytes")
  ELSE IF parse_text.tag = "Ok" THEN Ok(VArray(Flatten(parse_text.val)))
  ELSE Ok(VArray(<<>>))

(* ParsePrometheusTextFn::resolve, given the argument and the parser's answer *)
Resolve(bytes, parse_text) ==
  IF bytes.k # "bytes" THEN Err("expected bytes")
  ELSE IF parse_text.tag = "Ok" THEN Ok(VArray(Flatten(parse_text.val)))
  ELSE Err("failed parsing Prometheus text format: " \o parse_text.val)

(* ParsePrometheusTextFn::type_def / inner_type_def *)
InnerTypeDef ==
  [f \in {"name", "timestamp", "labels"} |->
     CASE f = "name" -> "bytes"
       [] f = "timestamp" -> "timestamp"
       [] f = "labels" -> "object"]

TypeDef == [fallible |-> TRUE, kind |-> "array", element |-> "object", fields |-> InnerTypeDef]

NotParsed == Pending

(* resolve on a bytes argument; parse_text is the grammar parser's answer *)
CallResolve(bytes, parse_text) ==
  /\ pc = "start"
  /\ value' = bytes
  /\ parsed' = parse_text
  /\ result' = Resolve(bytes, parse_text)
  /\ pc' = "done"

(* resolve on an argument that is not bytes: the parser is never called *)
CallResolveNotBytes(arg) ==
  /\ pc = "start"
  /\ value' = arg
  /\ parsed' = NotParsed
  /\ result' = Resolve(arg, NotParsed)
  /\ pc' = "done"

DecNext ==
  /\ pc = "start"
  /\ \/ \E n \in 0..MaxGroups : \E groups \in [1..n -> MetricGroups] :
          CallResolve(ArgBytes, Ok(groups))
     \/ \E e \in ParserErrors : CallResolve(ArgBytes, Err(e))
     \/ CallResolveNotBytes(VNull)
  /\ UNCHANGED <<outVars, arrVars>>

(***************************************************************************)
(* Specifications                                                          *)
(***************************************************************************)
(* every Output is Output::empty(), no EventArray has been built, and       *)
(* resolve has not been called                                             *)
Init ==
  /\ outs = [i \in OutIds |-> Empty]
  /\ last = NoOp
  /\ nOps = 0
  /\ array = None
  /\ iter = None
  /\ srcArr = None
  /\ yielded = <<>>
  /\ exhausted = FALSE
  /\ built = NotBuilt
  /\ pc = "start"
  /\ value = ArgBytes
  /\ parsed = NotParsed
  /\ result = Pending

SpecOutput == Init /\ [][OutNext]_vars
SpecArray == Init /\ [][ArrNext]_vars
SpecDecode == Init /\ [][DecNext]_vars

(***************************************************************************)
(* Properties of schema::Output (checked under SpecOutput)                 *)
(***************************************************************************)
PathOf(out, tag) == MapGet(out.purpose, tag)
Binds(out, tag) == tag \in Keys(out.purpose)

(* C1: Output::merge is not commutative on colliding purpose tags: a tag   *)
(* bound on both sides ends on other's path when other is merged into      *)
(* self, and on self's path when self is merged into other; a tag bound on *)
(* one side only keeps its path in both orders.                            *)
C1_MergeCollisionKeepsIncoming ==
  last.op = "merge" =>
    LET a == last.self
        b == last.other
        ab == outs[last.i]
        ba == MergeOutput(b, a)
    IN \A tag \in Purposes :
         /\ (Binds(a, tag) /\ Binds(b, tag)) =>
              /\ PathOf(ab, tag) = PathOf(b, tag)
              /\ PathOf(ba, tag) = PathOf(a, tag)
         /\ (Binds(a, tag) /\ ~Binds(b, tag)) =>
              /\ PathOf(ab, tag) = PathOf(a, tag)
              /\ PathOf(ba, tag) = PathOf(a, tag)
         /\ (~Binds(a, tag) /\ Binds(b, tag)) =>
              /\ PathOf(ab, tag) = PathOf(b, tag)
              /\ PathOf(ba, tag) = PathOf(b, tag)

C1_Witness ==
  /\ last.op = "merge"
  /\ \E tag \in Purposes :
       /\ Binds(last.self, tag) /\ Binds(last.other, tag)
       /\ PathOf(last.self, tag) # PathOf(last.other, tag)
       /\ PathOf(outs[last.i], tag) = PathOf(last.other, tag)
       /\ PathOf(MergeOutput(last.other, last.self), tag) = PathOf(last.self, tag)

(* C8: every purpose tag is bound to at most one path; define_field with a *)
(* purpose binds the tag to the given path, replacing any earlier binding, *)
(* and leaves the other tags alone; define_field without a purpose leaves  *)
(* the purpose map unchanged; merge binds the incoming tags to the         *)
(* incoming paths and leaves the rest alone.                               *)
C8_OnePathPerPurposeLastWins ==
  /\ \A i \in OutIds : \A tag \in Purposes : Cardinality(PathOf(outs[i], tag)) <= 1
  /\ (last.op = "define_field" /\ last.purpose # None) =>
       /\ PathOf(outs[last.i], last.purpose[1]) = {last.path}
       /\ \A tag \in Purposes \ {last.purpose[1]} :
            PathOf(outs[last.i], tag) = PathOf(last.self, tag)
  /\ (last.op = "define_field" /\ last.purpose = None) =>
       outs[last.i].purpose = last.self.purpose
  /\ last.op = "merge" =>
       \A tag \in Purposes :
         PathOf(outs[last.i], tag) =
           IF Binds(last.other, tag) THEN PathOf(last.other, tag) ELSE PathOf(last.self, tag)

C8_Witness ==
  /\ last.op = "define_field"
  /\ last.purpose # None
  /\ Binds(last.self, last.purpose[1])
  /\ PathOf(last.self, last.purpose[1]) # {last.path}
  /\ PathOf(outs[last.i], last.purpose[1]) = {last.path}
  /\ \E tag \in Purposes \ {last.purpose[1]} : Binds(outs[last.i], tag)

(* C9: the kind of a merged Output does not depend on the order of the     *)
(* merge: merging other into self gives the kind that merging self into    *)
(* other gives, whatever the purpose maps are.                             *)
C9_MergeKindOrderIndependent ==
  /\ last.op = "merge" =>
       /\ outs[last.i].kind = MergeKind(last.other.kind, last.self.kind)
       /\ outs[last.i].kind = MergeOutput(last.other, last.self).kind
  /\ MergeKind(outs[1].kind, outs[2].kind) = MergeKind(outs[2].kind, outs[1].kind)

C9_Witness ==
  /\ last.op = "merge"
  /\ last.self.purpose # last.other.purpose
  /\ outs[last.i].kind # last.self.kind
  /\ outs[last.i].kind # last.other.kind
  /\ outs[last.i].kind = MergeKind(last.other.kind, last.self.kind)

(***************************************************************************)
(* Properties of EventArray (checked under SpecArray)                      *)
(***************************************************************************)
(* C3: an EventArray built from one Event has exactly one element, in the  *)
(* variant of the Event's kind, and that element is the Event's payload.   *)
C3_FromEventIsSingleton ==
  built.how = "from" =>
    /\ array # None
    /\ Len(array[1].items) = 1
    /\ array[1].items[1] = built.event.payload
    /\ array[1].variant = (IF built.event.kind = "Log" THEN "Logs" ELSE "Metrics")
    /\ array[1].variant \in {"Logs", "Metrics"}

C3_Witness ==
  /\ built.how = "from"
  /\ built.event.kind = "Metric"
  /\ array = Some([variant |-> "Metrics", items |-> <<built.event.payload>>])

WrapAll(variant, items) ==
  [n \in 1..Len(items) |->
     IF variant = "Logs" THEN LogEvent(items[n]) ELSE MetricEvent(items[n])]

(* C4: the iterator of into_events yields the elements of the batch once   *)
(* each, in the order of the batch, wrapped in the Event variant of the    *)
(* array, and reports exhaustion only when all of them have been yielded.  *)
C4_IterYieldsBatchInOrderOnce ==
  iter # None =>
    LET src == srcArr[1]
        all == WrapAll(src.variant, src.items)
    IN /\ Len(yielded) <= Len(all)
       /\ yielded = SubSeq(all, 1, Len(yielded))
       /\ iter[1].variant = src.variant
       /\ iter[1].rest = SubSeq(src.items, Len(yielded) + 1, Len(src.items))
       /\ exhausted => yielded = all

C4_Witness ==
  /\ iter # None
  /\ exhausted
  /\ srcArr[1].variant = "Metrics"
  /\ Len(srcArr[1].items) = MaxLen
  /\ srcArr[1].items[1] # srcArr[1].items[2]
  /\ Len(yielded) = MaxLen

(***************************************************************************)
(* Properties of parse_prometheus_text (checked under SpecDecode)          *)
(***************************************************************************)
Decoded == pc = "done" /\ value.k = "bytes" /\ result.tag = "Ok"
Records == result.val.v

RECURSIVE TotalKeys(_)
TotalKeys(groups) ==
  IF groups = <<>> THEN 0 ELSE Len(Head(groups).metrics) + TotalKeys(Tail(groups))

(* the (group, group-key) pair the idx-th record came from *)
RECURSIVE Locate(_, _, _)
Locate(groups, g, idx) ==
  IF idx <= Len(groups[g].metrics) THEN [g |-> g, n |-> idx]
  ELSE Locate(groups, g + 1, idx - Len(groups[g].metrics))

GroupAt(idx) == parsed.val[Locate(parsed.val, 1, idx).g]
KeyAt(idx) == GroupAt(idx).metrics[Locate(parsed.val, 1, idx).n].key

(* C2: a parse error fails the whole decode with the parser's message, and *)
(* an array is returned only when the parser accepted the input.           *)
C2_DecodeAllOrNothing ==
  (pc = "done" /\ value.k = "bytes") =>
    /\ parsed.tag = "Err" =>
         /\ result.tag = "Err"
         /\ result.val = "failed parsing Prometheus text format: " \o parsed.val
    /\ result.tag = "Ok" =>
         /\ parsed.tag = "Ok"
         /\ Len(Records) = TotalKeys(parsed.val)

C2_Witness ==
  /\ pc = "done"
  /\ value.k = "bytes"
  /\ parsed = Err("expected value")
  /\ result = Err("failed parsing Prometheus text format: expected value")

(* C5: a successful decode has one record per (group, group-key) pair, in  *)
(* group order and then key order, nothing re-sorted or dropped; each      *)
(* record carries the name of its group.                                   *)
C5_OneRecordPerKeyInOrder ==
  Decoded =>
    /\ Len(Records) = TotalKeys(parsed.val)
    /\ \A idx \in 1..Len(Records) :
         /\ Records[idx]["name"] = VBytes(GroupAt(idx).name)
         /\ Records[idx]["type"] = VBytes(TypeToStr(GroupAt(idx).kind))
         /\ Records[idx]["labels"] = LabelsValue(KeyAt(idx).labels)
         /\ ("timestamp" \in DOMAIN Records[idx]) = (KeyAt(idx).timestamp # None)

C5_Witness ==
  /\ Decoded
  /\ Len(parsed.val) = 2
  /\ Len(parsed.val[1].metrics) = 2
  /\ Len(parsed.val[2].metrics) = 2
  /\ parsed.val[1].name # parsed.val[2].name
  /\ parsed.val[1].metrics[1].key = parsed.val[2].metrics[2].key
  /\ Len(Records) = 4
  /\ Records[3]["name"] = VBytes(parsed.val[2].name)

FieldsOf(kind) ==
  IF kind = "Summary" THEN {"type", "name", "quantiles", "sum", "count", "labels"}
  ELSE IF kind = "Histogram" THEN {"type", "name", "buckets", "sum", "count", "labels"}
  ELSE {"type", "name", "value", "labels"}

C7_RecordsMatchTypeDef ==
  Decoded =>
    \A idx \in 1..Len(Records) :
      \A f \in (DOMAIN InnerTypeDef) \cap (DOMAIN Records[idx]) :
        Records[idx][f].k = InnerTypeDef[f]

(* parse_text("metric_without_timestamp_and_labels 12.47") *)
ExampleParsed ==
  Ok(<<[name |-> "metric_without_timestamp_and_labels", kind |-> "Untyped",
        metrics |-> <<[key |-> [labels |-> NoLabels, timestamp |-> None],
                       sample |-> [value |-> 1247]]>>]>>)

(* C10: decoding 'metric_without_timestamp_and_labels 12.47' gives one     *)
(* record whose fields are gauge, name and tags.                           *)
C10_ExampleRecordFields ==
  (pc = "done" /\ value.k = "bytes" /\ parsed = ExampleParsed) =>
    /\ result.tag = "Ok"
    /\ Len(Records) = 1
    /\ DOMAIN Records[1] = {"gauge", "name", "tags"}

====
